---- MODULE Spec2Model ----
(***************************************************************************)
(* Model of Project/static/javascripts/home.js: the onReady callback and   *)
(* the listeners it registers (file-input change, dragover / dragleave /   *)
(* drop on the file label, the DataTable initialisation with its GET /data *)
(* request, the action button's click + 150 ms timer, the stat-card        *)
(* IntersectionObserver).  JavaScript runs each callback to completion, so *)
(* every callback is one atomic action.                                    *)
(***************************************************************************)
EXTENDS Integers, Sequences, FiniteSets, TLC

\* ------------------------------------------------------------------ bounds
MaxFiles == 2      \* longest FileList an event carries
MaxAlerts == 2     \* alerts raised in one run
MaxTimers == 2     \* 150 ms timers pending at once
MaxCols == 2       \* longest columns array in a /data response
MaxCards == 1      \* .stat-card elements on the page

VARIABLES
    dom,            \* which elements the page holds (fixed after load)
    pc,             \* "loading" before the onReady callback ran, "ready" after
    fileListeners,  \* change/dragover/dragleave/drop listeners registered
    inputFiles,     \* fileInput.files
    fileText,       \* fileText.textContent
    fileSelected,   \* fileLabel.classList has 'file-selected'
    dragOver,       \* fileLabel.classList has 'drag-over'
    labelStyle,     \* fileLabel.style.borderColor / .background
    filenameText,   \* textContent of .file-info .filename-text
    alerts,         \* number of alert('Please select a CSV file.') calls
    tableEl,        \* const tableEl of the callback
    ajax,           \* state of the GET /data request of this code
    response,       \* the json handed to the success callback
    requests,       \* GET /data requests issued by $.ajax of this code
    dtCalls,        \* the .DataTable({...}) calls made, in order
    clickListener,  \* click listener registered on .btn.large
    transform,      \* actionButton.style.transform
    timers,         \* pending setTimeout callbacks
    observed,       \* cards handed to observer.observe
    animated,       \* cards whose style.animation was set
    event,          \* the event delivered last (with the FileList it carried)
    lastDrag,       \* the last of dragover / dragleave / drop on the label
    lastChange      \* the FileList of the last change event on the input

vars == <<dom, pc, fileListeners, inputFiles, fileText, fileSelected, dragOver,
          labelStyle, filenameText, alerts, tableEl, ajax, response, requests,
          dtCalls, clickListener, transform, timers, observed, animated,
          event, lastDrag, lastChange>>

fileVars == <<inputFiles, fileText, fileSelected, dragOver, labelStyle,
              filenameText, alerts, lastDrag, lastChange>>
tableVars == <<ajax, response, requests, dtCalls>>
buttonVars == <<transform, timers>>
cardVars == <<animated>>
readyVars == <<dom, pc, fileListeners, tableEl, clickListener, observed>>

\* ------------------------------------------------------------ input values
\* File objects: a CSV by type and name, by name only, by type only, and none.
Files ==
    { [name |-> "a.csv", type |-> "text/csv"],
      [name |-> "b.csv", type |-> ""],
      [name |-> "c.dat", type |-> "text/csv"],
      [name |-> "n.txt", type |-> "text/plain"] }

FileLists == UNION { [1..n -> Files] : n \in 0..MaxFiles }

FileNames == { f.name : f \in Files }

ColumnNames == {"id", "query"}

ColumnLists == UNION { [1..n -> ColumnNames] : n \in 0..MaxCols }

\* The parsed JSON of /data: columns may be missing (undefined / null).
Jsons ==
    { j \in [hasColumns : BOOLEAN, columns : ColumnLists] :
        ~j.hasColumns => j.columns = <<>> }

NoJson == [hasColumns |-> FALSE, columns |-> <<>>]

\* ---------------------------------------------------------------- the page
\* ctable: the first table below #csvTableContainer ("child": its parent is
\* the container, "nested": it sits deeper); ctableId: that table has
\* id="csvTable"; other: an element with id="csvTable" outside the container.
TableConfigs ==
    { t \in [ctable : {"none", "child", "nested"}, ctableId : BOOLEAN, other : BOOLEAN] :
        /\ (t.ctable = "none" => ~t.ctableId)
        /\ ~(t.ctableId /\ t.other) }

Doms ==
    [fileInput : BOOLEAN, fileLabel : BOOLEAN, fileText : BOOLEAN,
     filenameText : BOOLEAN, table : TableConfigs, button : BOOLEAN,
     cards : 0..MaxCards]

NoElement == "null"
ContainerTable == "containerTable"
OtherCsvTable == "otherCsvTable"

\* document.querySelector("#csvTableContainer table")
QueryContainerTable(d) ==
    IF d.table.ctable # "none" THEN ContainerTable ELSE NoElement

\* document.getElementById("csvTable"), and jQuery's $('#csvTable')
GetCsvTable(d) ==
    IF d.table.ctable # "none" /\ d.table.ctableId THEN ContainerTable
    ELSE IF d.table.other THEN OtherCsvTable
    ELSE NoElement

\* querySelector(...) || getElementById(...)
DetectTableEl(d) ==
    IF QueryContainerTable(d) # NoElement THEN QueryContainerTable(d)
    ELSE GetCsvTable(d)

\* tableEl.parentElement && tableEl.parentElement.id === "csvTableContainer"
ParentIsContainer(d, el) ==
    el = ContainerTable /\ d.table.ctable = "child"

\* fileInput && fileLabel && fileText
FileElementsPresentNoText(d) == d.fileInput /\ d.fileLabel

FileElementsPresent(d) == d.fileInput /\ d.fileLabel /\ d.fileText

\* ------------------------------------------------------------ pure helpers
\* String.prototype.endsWith
EndsWith(s, suffix) ==
    /\ Len(s) >= Len(suffix)
    /\ SubSeq(s, Len(s) - Len(suffix) + 1, Len(s)) = suffix

\* file.type === 'text/csv' || file.name.endsWith('.csv')
IsCSV(file) == file.type = "text/csv" \/ EndsWith(file.name, ".csv")

ChooseText == "Choose CSV File"
PressedTransform == "scale(0.98)"
InitialStyle == [borderColor |-> "", background |-> ""]
SuccessStyle == [borderColor |-> "var(--success)", background |-> "var(--success-light)"]
PrimaryStyle == [borderColor |-> "var(--primary)", background |-> "var(--input-bg)"]

Ev(type, files) == [type |-> type, files |-> files]

\* ------------------------------------------------------------- the page load
InitOn(pages) ==
    /\ dom \in pages
    /\ pc = "loading"
    /\ fileListeners = FALSE
    /\ inputFiles = <<>>
    /\ fileText = ChooseText
    /\ fileSelected = FALSE
    /\ dragOver = FALSE
    /\ labelStyle = InitialStyle
    /\ filenameText = ""
    /\ alerts = 0
    /\ tableEl = NoElement
    /\ ajax = "none"
    /\ response = NoJson
    /\ requests = 0
    /\ dtCalls = <<>>
    /\ clickListener = FALSE
    /\ transform = ""
    /\ timers = 0
    /\ observed = {}
    /\ animated = {}
    /\ event = Ev("load", <<>>)
    /\ lastDrag = "none"
    /\ lastChange = [seen |-> FALSE, files |-> <<>>]

\* The file-input handlers (lines 11-68) and the table / button / card code
\* (lines 71-165) share no state.  The pages explored carry every combination
\* of elements within one of the two groups, plus the page that holds the
\* upload form, a pre-rendered #csvTable and the action button together.
FilePages ==
    { d \in Doms :
        d.table.ctable = "none" /\ ~d.table.other /\ ~d.button /\ d.cards = 0 }

WidgetPages ==
    { d \in Doms :
        ~d.fileInput /\ ~d.fileLabel /\ ~d.fileText /\ ~d.filenameText }

MixedPages ==
    { d \in Doms :
        /\ d.fileInput /\ d.fileLabel /\ d.fileText /\ d.filenameText
        /\ d.table.ctable = "child" /\ d.table.ctableId
        /\ d.button
        /\ d.cards = 0 }

Init == InitOn(FilePages \cup WidgetPages \cup MixedPages)

\* $(tableEl).DataTable({...}) of the pre-rendered branch
ClientCall(el) == [mode |-> "client", target |-> el, columns |-> <<>>]

\* $('#csvTable').DataTable({serverSide: true, ..., columns: json.columns})
ServerCall(d, columns) ==
    [mode |-> "server", target |-> GetCsvTable(d), columns |-> columns]

\* The callback handed to onReady, run once.
Ready ==
    /\ pc = "loading"
    /\ pc' = "ready"
    /\ fileListeners' = FileElementsPresent(dom)
    /\ tableEl' = DetectTableEl(dom)
    /\ IF tableEl' # NoElement
       THEN IF ParentIsContainer(dom, tableEl')
            THEN /\ dtCalls' = Append(dtCalls, ClientCall(tableEl'))
                 /\ UNCHANGED <<ajax, requests>>
            ELSE /\ ajax' = "pending"
                 /\ requests' = requests + 1
                 /\ UNCHANGED dtCalls
       ELSE UNCHANGED <<ajax, requests, dtCalls>>
    /\ clickListener' = dom.button
    /\ observed' = IF dom.cards > 0 THEN 1..dom.cards ELSE {}
    /\ event' = Ev("ready", <<>>)
    /\ UNCHANGED <<dom, response, fileVars, buttonVars, cardVars>>

\* ----------------------------------------------------------- the file input
\* The change listener, given e.target.files.
ChangeListenerKeepsClass(fs) ==
    IF Len(fs) > 0
    THEN /\ fileText' = fs[1].name
         /\ fileSelected' = TRUE
         /\ labelStyle' = SuccessStyle
         /\ filenameText' = IF dom.filenameText THEN fs[1].name ELSE filenameText
    ELSE /\ fileText' = ChooseText
         /\ labelStyle' = PrimaryStyle
         /\ UNCHANGED <<fileSelected, filenameText>>

ChangeListener(fs) ==
    IF Len(fs) > 0
    THEN /\ fileText' = fs[1].name
         /\ fileSelected' = TRUE
         /\ labelStyle' = SuccessStyle
         /\ filenameText' = IF dom.filenameText THEN fs[1].name ELSE filenameText
    ELSE /\ fileText' = ChooseText
         /\ fileSelected' = FALSE
         /\ labelStyle' = PrimaryStyle
         /\ UNCHANGED filenameText

\* A change event reaches the input, whose files are fs.
DispatchChange(fs) ==
    /\ lastChange' = [seen |-> TRUE, files |-> fs]
    /\ IF fileListeners
       THEN ChangeListener(fs)
       ELSE UNCHANGED <<fileText, fileSelected, labelStyle, filenameText>>

\* The user picks fs in the file dialog (or cancels it: fs is empty).
ChangeEvent ==
    \E fs \in FileLists :
        /\ pc = "ready"
        /\ dom.fileInput
        /\ inputFiles' = fs
        /\ DispatchChange(fs)
        /\ event' = Ev("change", fs)
        /\ UNCHANGED <<readyVars, dragOver, alerts, lastDrag, tableVars, buttonVars, cardVars>>

DragOverListener == dragOver' = TRUE

DragLeaveListener == dragOver' = FALSE

DragOverEvent ==
    /\ pc = "ready"
    /\ dom.fileLabel
    /\ IF fileListeners THEN DragOverListener ELSE UNCHANGED dragOver
    /\ lastDrag' = "dragover"
    /\ event' = Ev("dragover", <<>>)
    /\ UNCHANGED <<readyVars, inputFiles, fileText, fileSelected, labelStyle,
                   filenameText, alerts, lastChange, tableVars, buttonVars, cardVars>>

DragLeaveEvent ==
    /\ pc = "ready"
    /\ dom.fileLabel
    /\ IF fileListeners THEN DragLeaveListener ELSE UNCHANGED dragOver
    /\ lastDrag' = "dragleave"
    /\ event' = Ev("dragleave", <<>>)
    /\ UNCHANGED <<readyVars, inputFiles, fileText, fileSelected, labelStyle,
                   filenameText, alerts, lastChange, tableVars, buttonVars, cardVars>>

\* The drop listener, given e.dataTransfer.files.
DropListenerNoDispatch(fs) ==
    /\ dragOver' = FALSE
    /\ IF Len(fs) > 0
       THEN IF IsCSV(fs[1])
            THEN /\ inputFiles' = fs
                 /\ UNCHANGED <<alerts, lastChange, fileText, fileSelected,
                                labelStyle, filenameText>>
            ELSE /\ alerts' = alerts + 1
                 /\ UNCHANGED <<inputFiles, lastChange, fileText, fileSelected,
                                labelStyle, filenameText>>
       ELSE UNCHANGED <<inputFiles, alerts, lastChange, fileText, fileSelected,
                        labelStyle, filenameText>>

DropListenerClearsInput(fs) ==
    /\ dragOver' = FALSE
    /\ IF Len(fs) > 0
       THEN IF IsCSV(fs[1])
            THEN /\ inputFiles' = fs
                 /\ DispatchChange(fs)
                 /\ UNCHANGED alerts
            ELSE /\ alerts' = alerts + 1
                 /\ inputFiles' = <<>>
                 /\ DispatchChange(<<>>)
       ELSE UNCHANGED <<inputFiles, alerts, lastChange, fileText, fileSelected,
                        labelStyle, filenameText>>

DropListenerKeepsDragOver(fs) ==
    IF Len(fs) > 0
    THEN /\ dragOver' = FALSE
         /\ IF IsCSV(fs[1])
            THEN /\ inputFiles' = fs
                 /\ DispatchChange(fs)
                 /\ UNCHANGED alerts
            ELSE /\ alerts' = alerts + 1
                 /\ UNCHANGED <<inputFiles, lastChange, fileText, fileSelected,
                                labelStyle, filenameText>>
    ELSE UNCHANGED <<dragOver, inputFiles, alerts, lastChange, fileText,
                     fileSelected, labelStyle, filenameText>>

DropListener(fs) ==
    /\ dragOver' = FALSE
    /\ IF Len(fs) > 0
       THEN IF IsCSV(fs[1])
            THEN /\ inputFiles' = fs
                 /\ DispatchChange(fs)
                 /\ UNCHANGED alerts
            ELSE /\ alerts' = alerts + 1
                 /\ UNCHANGED <<inputFiles, lastChange, fileText, fileSelected,
                                labelStyle, filenameText>>
       ELSE UNCHANGED <<inputFiles, alerts, lastChange, fileText, fileSelected,
                        labelStyle, filenameText>>

DropEvent ==
    \E fs \in FileLists :
        /\ pc = "ready"
        /\ dom.fileLabel
        /\ IF fileListeners
           THEN DropListener(fs)
           ELSE UNCHANGED <<dragOver, inputFiles, alerts, lastChange, fileText,
                            fileSelected, labelStyle, filenameText>>
        /\ alerts' <= MaxAlerts
        /\ lastDrag' = "drop"
        /\ event' = Ev("drop", fs)
        /\ UNCHANGED <<readyVars, tableVars, buttonVars, cardVars>>

\* ------------------------------------------------------------ the data table
\* success: function (json) { if (!json.columns || ...length === 0) return; ... }
SuccessCallbackNoGuard(json) ==
    dtCalls' = Append(dtCalls, ServerCall(dom, json.columns))

SuccessCallback(json) ==
    IF ~json.hasColumns \/ Len(json.columns) = 0
    THEN UNCHANGED dtCalls
    ELSE dtCalls' = Append(dtCalls, ServerCall(dom, json.columns))

\* GET /data answers with json.
AjaxSuccess ==
    \E json \in Jsons :
        /\ pc = "ready"
        /\ ajax = "pending"
        /\ ajax' = "success"
        /\ response' = json
        /\ SuccessCallback(json)
        /\ event' = Ev("ajaxSuccess", <<>>)
        /\ UNCHANGED <<readyVars, requests, fileVars, buttonVars, cardVars>>

\* GET /data fails (no error callback is given); a request that never
\* completes is the run in which neither action is taken.
AjaxError ==
    /\ pc = "ready"
    /\ ajax = "pending"
    /\ ajax' = "error"
    /\ event' = Ev("ajaxError", <<>>)
    /\ UNCHANGED <<readyVars, response, requests, dtCalls, fileVars, buttonVars, cardVars>>

\* ---------------------------------------------------------- the action button
ClickListener ==
    /\ transform' = PressedTransform
    /\ timers' = timers + 1

ClickEvent ==
    /\ pc = "ready"
    /\ dom.button
    /\ IF clickListener THEN ClickListener ELSE UNCHANGED <<transform, timers>>
    /\ timers' <= MaxTimers
    /\ event' = Ev("click", <<>>)
    /\ UNCHANGED <<readyVars, fileVars, tableVars, cardVars>>

\* setTimeout(() => { this.style.transform = ''; }, 150)
TimerCallbackKeepsPressed == UNCHANGED transform

TimerCallback == transform' = ""

TimerFire ==
    /\ timers > 0
    /\ timers' = timers - 1
    /\ TimerCallback
    /\ event' = Ev("timer", <<>>)
    /\ UNCHANGED <<readyVars, fileVars, tableVars, cardVars>>

\* ------------------------------------------------------------ the stat cards
\* entries.forEach(entry => { if (entry.isIntersecting) ...animation = ... })
ObserverCallback(card, isIntersecting) ==
    animated' = IF isIntersecting THEN animated \cup {card} ELSE animated

Intersection ==
    \E card \in observed, isIntersecting \in BOOLEAN :
        /\ pc = "ready"
        /\ ObserverCallback(card, isIntersecting)
        /\ event' = Ev("intersection", <<>>)
        /\ UNCHANGED <<readyVars, fileVars, tableVars, buttonVars>>

\* ------------------------------------------------------------ specification
Next ==
    \/ Ready
    \/ ChangeEvent
    \/ DragOverEvent
    \/ DragLeaveEvent
    \/ DropEvent
    \/ AjaxSuccess
    \/ AjaxError
    \/ ClickEvent
    \/ TimerFire
    \/ Intersection

Spec == Init /\ [][Next]_vars

\* ------------------------------------------------------------------ claims
NotCsvFirst(fs) ==
    /\ Len(fs) > 0
    /\ fs[1].type # "text/csv"
    /\ ~EndsWith(fs[1].name, ".csv")

CsvFirst(fs) ==
    /\ Len(fs) > 0
    /\ (fs[1].type = "text/csv" \/ EndsWith(fs[1].name, ".csv"))

ServerCalls == { i \in 1..Len(dtCalls) : dtCalls[i].mode = "server" }

\* C1: a drop on the file label whose first file is not a CSV raises one alert,
\* removes 'drag-over', and leaves the input's files, the label text, the
\* 'file-selected' class (and the rest of the label state) as they were; no
\* change event is dispatched.
C1_RejectedDropOnlyAlerts ==
    [][ (event'.type = "drop" /\ fileListeners /\ NotCsvFirst(event'.files))
        => /\ alerts' = alerts + 1
           /\ dragOver' = FALSE
           /\ inputFiles' = inputFiles
           /\ fileText' = fileText
           /\ fileSelected' = fileSelected
           /\ labelStyle' = labelStyle
           /\ filenameText' = filenameText
           /\ lastChange' = lastChange ]_vars

\* A rejected drop arrived while a file was selected, and the selection stands.
C1_Witness ==
    /\ fileListeners
    /\ event.type = "drop"
    /\ NotCsvFirst(event.files)
    /\ alerts > 0
    /\ fileSelected
    /\ inputFiles # <<>>
    /\ fileText = inputFiles[1].name

\* C2: with one of #csvFileInput, .file-input-label, .file-text missing no
\* listener is registered, so no event changes the label state or raises an
\* alert; with no table element found no widget is initialised and no request
\* to /data is sent; with no .btn.large there is no click listener; with no
\* .stat-card nothing is observed.
C2_MissingElementsSkipped ==
    /\ ~(dom.fileInput /\ dom.fileLabel /\ dom.fileText)
         => /\ ~fileListeners
            /\ fileText = ChooseText
            /\ ~fileSelected
            /\ ~dragOver
            /\ labelStyle = InitialStyle
            /\ filenameText = ""
            /\ alerts = 0
    /\ (dom.table.ctable = "none" /\ ~dom.table.other)
         => /\ dtCalls = <<>>
            /\ requests = 0
            /\ ajax = "none"
    /\ ~dom.button
         => /\ ~clickListener
            /\ transform = ""
            /\ timers = 0
    /\ dom.cards = 0
         => /\ observed = {}
            /\ animated = {}

\* Only .file-text is missing; a file was picked and then files were dropped.
C2_Witness ==
    /\ pc = "ready"
    /\ ~dom.fileText
    /\ lastChange.seen
    /\ lastChange.files # <<>>
    /\ event.type = "drop"
    /\ event.files # <<>>

\* C3 (as claimed): the widget is initialised at most once; client-side, with
\* no request to /data, when a table exists inside #csvTableContainer, and
\* server-side otherwise.
C3_OneModeByContainer ==
    /\ Len(dtCalls) <= 1
    /\ \A i \in 1..Len(dtCalls) :
        IF dom.table.ctable # "none"
        THEN dtCalls[i].mode = "client" /\ requests = 0
        ELSE dtCalls[i].mode = "server"

\* C4: a server-side initialisation happens only after GET /data succeeded
\* with a non-empty columns array, and with exactly that array; a failed or
\* pending request, or a response without columns, initialises nothing.
C4_ServerInitNeedsColumns ==
    /\ \A i \in ServerCalls :
        /\ ajax = "success"
        /\ response.hasColumns
        /\ Len(response.columns) > 0
        /\ dtCalls[i].columns = response.columns
    /\ (ajax # "success" \/ ~response.hasColumns \/ Len(response.columns) = 0)
         => ServerCalls = {}

\* The server-side widget was initialised with a two-column response.
C4_Witness ==
    /\ ServerCalls # {}
    /\ Len(response.columns) > 1
    /\ dtCalls[1].columns = response.columns

\* C5: after change events the label reflects the last one: 'file-selected'
\* iff it carried a file, and .file-text is that file's name, or
\* 'Choose CSV File' when it carried none.
C5_LabelReflectsLastChange ==
    (fileListeners /\ lastChange.seen)
      => /\ fileSelected <=> (Len(lastChange.files) > 0)
         /\ fileText = IF Len(lastChange.files) > 0
                       THEN lastChange.files[1].name
                       ELSE ChooseText

\* A file had been selected, and the last change event carried none.
C5_Witness ==
    /\ fileListeners
    /\ event.type = "change"
    /\ lastChange.seen
    /\ lastChange.files = <<>>
    /\ filenameText \in FileNames
    /\ fileText = ChooseText
    /\ ~fileSelected

\* C6: a drop whose first file is a CSV makes the dropped list the input's
\* files and dispatches a change event, so the label has 'file-selected' and
\* .file-text shows the first dropped file's name.
C6_AcceptedDropSelects ==
    [][ (event'.type = "drop" /\ fileListeners /\ CsvFirst(event'.files))
        => /\ inputFiles' = event'.files
           /\ lastChange' = [seen |-> TRUE, files |-> event'.files]
           /\ fileSelected'
           /\ fileText' = event'.files[1].name ]_vars

\* Two files were dropped, the first a CSV by its type only.
C6_Witness ==
    /\ fileListeners
    /\ event.type = "drop"
    /\ Len(event.files) > 1
    /\ event.files[1].name = "c.dat"
    /\ inputFiles = event.files
    /\ fileSelected
    /\ fileText = "c.dat"

\* C7: the label has 'drag-over' exactly when the last of the dragover,
\* dragleave and drop events was a dragover.
C7_DragOverIffLastDragOver ==
    fileListeners => (dragOver <=> lastDrag = "dragover")

\* A drop was rejected (removing the class) and a later dragover set it again;
\* the last event of all was a change, which did not touch it.
C7_Witness ==
    /\ fileListeners
    /\ alerts > 0
    /\ lastDrag = "dragover"
    /\ event.type = "change"
    /\ dragOver

\* C8: once every scheduled timer has fired, the button's transform is ''.
C8_TransformResetWhenTimersDone ==
    timers = 0 => transform = ""

\* The last timer fired and reset the transform.
C8_Witness ==
    /\ clickListener
    /\ event.type = "timer"
    /\ timers = 0
    /\ transform = ""

\* C9 (as claimed): a server-side initialisation is made on the element that
\* was detected as tableEl.
C9_ServerInitOnDetectedTable ==
    \A i \in ServerCalls : dtCalls[i].target = tableEl

\* C10 (as claimed): .file-info .filename-text agrees with the label: the
\* selected file's name while one is selected, and no file's name once a
\* change event without a file has reset the label.
C10_FilenameTextAgreesWithLabel ==
    (fileListeners /\ dom.filenameText /\ lastChange.seen)
      => IF fileSelected
         THEN filenameText = fileText
         ELSE filenameText \notin FileNames

====
